---------------------------- MODULE Spec2Model ----------------------------
(***************************************************************************)
(* RecruitIQ (recrute.py): the candidate ranking page                      *)
(* (show_ranking_module) and the analytics dashboard                       *)
(* (show_analytics_dashboard) as a state machine over a read-only score    *)
(* repository.                                                             *)
(*                                                                         *)
(* Numbers.  A pandas cell is modelled as an exact rational [n, d] with    *)
(* d > 0, kept in lowest terms; NaN is the cell [n |-> 0, d |-> 0] and     *)
(* +-inf the cells [n |-> +-1, d |-> 0].  Floating-point rounding is not   *)
(* modelled.  Slider weights (0.0 .. 1.0, step 0.1) are counted in tenths. *)
(***************************************************************************)
EXTENDS Integers, Sequences, FiniteSets

\* ------------------------------------------------------------------ bounds
MaxSessions == 2
MaxCand == 2
MaxVal == 2

\* Weights tried on each slider, in tenths (the slider offers 0 .. 10).
WeightChoices == {0, 5, 10}

\* The metric registry (configuration of the repository's data module).
Registry == <<"Technical", "Communication">>

\* ------------------------------------------------------- pandas arithmetic
NaN == [n |-> 0, d |-> 0]

IsNaN(x) == x.d = 0 /\ x.n = 0

Abs(k) == IF k < 0 THEN -k ELSE k

RECURSIVE GCD(_, _)
GCD(a, b) == IF b = 0 THEN a ELSE GCD(b, a % b)

\* n / d for d > 0, in lowest terms.
Frac(n, d) == LET g == GCD(Abs(n), d) IN [n |-> n \div g, d |-> d \div g]

R(v) == [n |-> v, d |-> 1]

\* x + y, x - y, x * y on cells; NaN propagates.
RAdd(x, y) == IF x.d = 0 \/ y.d = 0 THEN NaN ELSE Frac(x.n * y.d + y.n * x.d, x.d * y.d)

RSub(x, y) == IF x.d = 0 \/ y.d = 0 THEN NaN ELSE Frac(x.n * y.d - y.n * x.d, x.d * y.d)

RMul(x, y) == IF x.d = 0 \/ y.d = 0 THEN NaN ELSE Frac(x.n * y.n, x.d * y.d)

\* x / y as pandas divides: 0/0 is NaN and k/0 is +-inf, never an exception.
RDiv(x, y) ==
    IF x.d = 0 \/ y.d = 0 THEN NaN
    ELSE IF y.n = 0
         THEN (IF x.n = 0 THEN NaN ELSE [n |-> (IF x.n > 0 THEN 1 ELSE -1), d |-> 0])
         ELSE IF y.n > 0 THEN Frac(x.n * y.d, x.d * y.n)
                         ELSE Frac(-(x.n * y.d), x.d * (-y.n))

\* x <= y on defined cells.
RLe(x, y) == x.n * y.d <= y.n * x.d

RECURSIVE SumCells(_, _)
\* Python's sum(...) over a sequence of cells, starting from acc.
SumCells(s, acc) == IF s = <<>> THEN acc ELSE SumCells(Tail(s), RAdd(acc, Head(s)))

\* The defined cells of a sequence (skipna).
Present(s) == SelectSeq(s, LAMBDA x : ~IsNaN(x))

\* Series.mean / DataFrame.mean with skipna: NaN cells are left out, and the
\* mean of no cell at all is NaN.
Mean(s) == LET p == Present(s)
           IN IF p = <<>> THEN NaN ELSE RDiv(SumCells(p, R(0)), R(Len(p)))

RECURSIVE MaxCell(_)
MaxCell(s) == IF Len(s) = 1 THEN s[1]
              ELSE LET t == MaxCell(Tail(s)) IN IF RLe(t, s[1]) THEN s[1] ELSE t

RECURSIVE MinCell(_)
MinCell(s) == IF Len(s) = 1 THEN s[1]
              ELSE LET t == MinCell(Tail(s)) IN IF RLe(s[1], t) THEN s[1] ELSE t

\* Series.max / Series.min with skipna.
ColMax(s) == LET p == Present(s) IN IF p = <<>> THEN NaN ELSE MaxCell(p)

ColMin(s) == LET p == Present(s) IN IF p = <<>> THEN NaN ELSE MinCell(p)

\* ---------------------------------------------------------- pandas frames
Min(a, b) == IF a <= b THEN a ELSE b

Range(s) == {s[k] : k \in DOMAIN s}

\* d[k] = v on a Python dict: a new key goes last in the key order.
DictSet(d, k, v) ==
    [keys |-> IF k \in Range(d.keys) THEN d.keys ELSE Append(d.keys, k),
     cells |-> [x \in (DOMAIN d.cells) \cup {k} |-> IF x = k THEN v ELSE d.cells[x]]]

RECURSIVE StoreScores(_, _)
\* for score in scores: data_dict[score['metric']] = score['value']
StoreScores(d, scores) ==
    IF scores = <<>> THEN d
    ELSE StoreScores(DictSet(d, Head(scores).metric, Head(scores).value), Tail(scores))

EmptyDict == [keys |-> <<>>, cells |-> <<>>]

RECURSIVE AddKeys(_, _)
AddKeys(cols, keys) ==
    IF keys = <<>> THEN cols
    ELSE AddKeys(IF Head(keys) \in Range(cols) THEN cols ELSE Append(cols, Head(keys)),
                 Tail(keys))

RECURSIVE Columns(_)
\* The score columns of pd.DataFrame(rows): the keys of the dicts in order of
\* first appearance.
Columns(rows) ==
    IF rows = <<>> THEN <<>>
    ELSE LET before == Columns(SubSeq(rows, 1, Len(rows) - 1))
         IN AddKeys(before, rows[Len(rows)].scores.keys)

\* pd.DataFrame(rows): a key a dict lacks becomes a NaN cell.
DataFrame(rows) ==
    LET cols == Range(Columns(rows))
    IN [k \in DOMAIN rows |->
          [id |-> rows[k].id, name |-> rows[k].name,
           cells |-> [m \in cols |-> IF m \in DOMAIN rows[k].scores.cells
                                     THEN R(rows[k].scores.cells[m]) ELSE NaN]]]

\* df[m] as a sequence of cells.
Column(frame, m) == [k \in DOMAIN frame |-> frame[k].cells[m]]

Perms(n) == {p \in [1..n -> 1..n] : \A a, b \in 1..n : p[a] = p[b] => a = b}

\* Every index order sort_values(ascending=False) may return with the default
\* kind='quicksort' and na_position='last': defined cells first and
\* non-increasing, NaN cells last in their original order.  The default kind
\* is not a stable sort, so the relative order of equal cells is left open.
SortOrders(col) ==
    {p \in Perms(Len(col)) :
        \A a, b \in 1..Len(col) : a < b =>
            /\ IsNaN(col[p[a]]) => IsNaN(col[p[b]])
            /\ IsNaN(col[p[a]]) => p[a] < p[b]
            /\ ~IsNaN(col[p[b]]) => RLe(col[p[b]], col[p[a]])}

\* The frames df.sort_values(by=..., ascending=False) may return.
SortValues(frame, col) == {[k \in DOMAIN frame |-> frame[p[k]]] : p \in SortOrders(col)}

\* frame.head(n)
HeadN(frame, n) == SubSeq(frame, 1, Min(n, Len(frame)))

\* -------------------------------------------------------------- the state
VARIABLES
    sessions,        \* repository: the sessions, as data.list_sessions() returns them
    db_candidates,   \* repository: the candidates, in listing order
    db_scores,       \* repository: candidate id -> the candidate's Score records
    page,            \* the page main() routed to
    pc,              \* the position of the page's handler
    session_id,      \* the session picked in the selectbox
    candidates,      \* the handler's candidates list
    i,               \* the loop index over candidates
    candidate_data,  \* the rows collected for the frame (all_scores on the dashboard)
    df,              \* the frame (df_scores on the dashboard)
    metrics,         \* the score columns of the frame
    cfg,             \* the widgets' values of the ranking configuration
    df_ranked,       \* the ranking handed to st.dataframe
    info,            \* the st.info message shown, "" when none
    calls,           \* the repository calls made by the handler, in order
    stats            \* the dashboard's key metrics

vars == <<sessions, db_candidates, db_scores, page, pc, session_id, candidates, i,
          candidate_data, df, metrics, cfg, df_ranked, info, calls, stats>>

repo == <<sessions, db_candidates, db_scores>>

\* ------------------------------------------------------- score repository
\* The Score records of one candidate for the scoring f (0: metric not scored),
\* in registry order.
ScoreList(f) ==
    LET all == [j \in DOMAIN Registry |-> [metric |-> Registry[j], value |-> f[j]]]
    IN SelectSeq(all, LAMBDA sc : sc.value > 0)

ScoreLists == {ScoreList(f) : f \in [DOMAIN Registry -> 0..MaxVal]}

list_sessions == sessions

list_candidates(sid) == SelectSeq(db_candidates, LAMBDA c : c.session_id = sid)

get_scores_for_candidate(cid) == db_scores[cid]

NoCfg == [weight_method |-> "", ranking_metric |-> "", top_n |-> 0, normalize |-> FALSE,
          weights |-> <<>>]

NoStats == [total_candidates |-> 0, avg_total |-> NaN, completed |-> 0, top_score |-> NaN]

\* A repository as the administration and interview pages leave it: every
\* candidate belongs to the first session, later sessions have no candidate yet.
Init ==
    /\ \E ns \in 0..MaxSessions, nc \in 0..MaxCand :
          /\ ns = 0 => nc = 0
          /\ sessions = [k \in 1..ns |-> k]
          /\ db_candidates = [k \in 1..nc |-> [id |-> k, name |-> k, session_id |-> 1]]
          /\ db_scores \in [1..nc -> ScoreLists]
    /\ page = ""
    /\ pc = "idle"
    /\ session_id = 0
    /\ candidates = <<>>
    /\ i = 0
    /\ candidate_data = <<>>
    /\ df = <<>>
    /\ metrics = <<>>
    /\ cfg = NoCfg
    /\ df_ranked = <<>>
    /\ info = ""
    /\ calls = <<>>
    /\ stats = NoStats

\* A truth test that takes every list, the empty one too, as true.
TruthyAlways(list) == Len(list) >= 0

\* Python truth of a list: `if scores:` and `if not candidates:`.
Truthy(list) == Len(list) > 0

\* ------------------------------------------------- show_ranking_module
\* sessions = data.list_sessions(); if not sessions: st.info(...); return
RankListSessions ==
    /\ pc = "idle"
    /\ page' = "ranking"
    /\ calls' = Append(calls, "list_sessions")
    /\ IF ~Truthy(list_sessions)
       THEN /\ info' = "No sessions available."
            /\ pc' = "done"
       ELSE /\ info' = info
            /\ pc' = "select"
    /\ UNCHANGED <<repo, session_id, candidates, i, candidate_data, df, metrics, cfg,
                   df_ranked, stats>>

\* The selectbox, then candidates = data.list_candidates(session_id).
RankListCandidates ==
    /\ page = "ranking" /\ pc = "select"
    /\ \E sid \in Range(sessions) :
          /\ session_id' = sid
          /\ candidates' = list_candidates(sid)
          /\ calls' = Append(calls, "list_candidates")
          /\ IF ~Truthy(list_candidates(sid))
             THEN /\ info' = "No candidates in this session."
                  /\ pc' = "done"
                  /\ i' = i
             ELSE /\ info' = info
                  /\ pc' = "fetch"
                  /\ i' = 1
    /\ UNCHANGED <<repo, page, candidate_data, df, metrics, cfg, df_ranked, stats>>

\* One turn of `for cand in candidates:`.
RankFetchScores ==
    /\ page = "ranking" /\ pc = "fetch" /\ i <= Len(candidates)
    /\ LET cand == candidates[i]
           scores == get_scores_for_candidate(cand.id)
       IN /\ calls' = Append(calls, "get_scores_for_candidate")
          /\ candidate_data' =
                IF Truthy(scores)
                THEN Append(candidate_data,
                            [id |-> cand.id, name |-> cand.name,
                             scores |-> StoreScores(EmptyDict, scores)])
                ELSE candidate_data
    /\ i' = i + 1
    /\ UNCHANGED <<repo, page, pc, session_id, candidates, df, metrics, cfg, df_ranked,
                   info, stats>>

\* After the loop: the two emptiness checks and the frame.
RankBuildFrame ==
    /\ page = "ranking" /\ pc = "fetch" /\ i > Len(candidates)
    /\ IF ~Truthy(candidate_data)
       THEN /\ info' = "No scores recorded. Score candidates first."
            /\ pc' = "done"
            /\ UNCHANGED <<df, metrics>>
       ELSE /\ df' = DataFrame(candidate_data)
            /\ metrics' = Columns(candidate_data)
            /\ IF ~Truthy(Columns(candidate_data))
               THEN /\ info' = "No metrics available."
                    /\ pc' = "done"
               ELSE /\ info' = info
                    /\ pc' = "configure"
    /\ UNCHANGED <<repo, page, session_id, candidates, i, candidate_data, cfg, df_ranked,
                   calls, stats>>

\* weight_method == "Single Metric": sort by the metric, head(top_n), rank, and
\* the columns rank, name and the metric; then st.dataframe(df_ranked).
RankSingleMetric ==
    /\ page = "ranking" /\ pc = "configure"
    /\ \E ranking_metric \in Range(metrics), top_n \in 1..Len(df) :
          /\ cfg' = [weight_method |-> "Single Metric", ranking_metric |-> ranking_metric,
                     top_n |-> top_n, normalize |-> FALSE, weights |-> <<>>]
          /\ \E sorted \in SortValues(df, Column(df, ranking_metric)) :
                LET top == HeadN(sorted, top_n)
                IN df_ranked' =
                      [k \in DOMAIN top |->
                         [rank |-> k, name |-> top[k].name,
                          cells |-> [m \in {ranking_metric} |-> top[k].cells[m]]]]
    /\ pc' = "done"
    /\ UNCHANGED <<repo, page, session_id, candidates, i, candidate_data, df, metrics,
                   info, calls, stats>>

\* sum(df[metric] * weights.get(metric, 1.0) for metric in metrics) for one row.
WeightedScore(row, mets, weights) ==
    SumCells([j \in DOMAIN mets |-> RMul(row.cells[mets[j]], Frac(weights[mets[j]], 10))],
             R(0))

\* weight_method == "Weighted Average"
RankWeightedAverage ==
    /\ page = "ranking" /\ pc = "configure"
    /\ \E weights \in [Range(metrics) -> WeightChoices], top_n \in 1..Len(df) :
          LET scored == [k \in DOMAIN df |->
                           [id |-> df[k].id, name |-> df[k].name, cells |-> df[k].cells,
                            weighted_score |-> WeightedScore(df[k], metrics, weights)]]
              by == [k \in DOMAIN scored |-> scored[k].weighted_score]
          IN /\ cfg' = [weight_method |-> "Weighted Average",
                        ranking_metric |-> metrics[1], top_n |-> top_n,
                        normalize |-> FALSE, weights |-> weights]
             /\ df' = scored
             /\ \E sorted \in SortValues(scored, by) :
                   LET top == HeadN(sorted, top_n)
                   IN df_ranked' =
                         [k \in DOMAIN top |->
                            [rank |-> k, name |-> top[k].name,
                             weighted_score |-> top[k].weighted_score,
                             cells |-> top[k].cells]]
    /\ pc' = "done"
    /\ UNCHANGED <<repo, page, session_id, candidates, i, candidate_data, metrics, info,
                   calls, stats>>

\* (df[metric] - df[metric].min()) / (df[metric].max() - df[metric].min()) for
\* one cell of the column col.
Normalized(cell, col) == RDiv(RSub(cell, ColMin(col)), RSub(ColMax(col), ColMin(col)))

\* df[composite_cols].mean(axis=1) for one row: the mean of the row's defined
\* cells among the chosen columns.
CompositeScore(chosen, mets) == Mean([j \in DOMAIN mets |-> chosen[mets[j]]])

\* weight_method == "Composite Score"
RankCompositeScore ==
    /\ page = "ranking" /\ pc = "configure"
    /\ \E normalize \in BOOLEAN, top_n \in 1..Len(df) :
          LET norm(k) == [m \in Range(metrics) |->
                            Normalized(df[k].cells[m], Column(df, m))]
              chosen(k) == IF normalize THEN norm(k) ELSE df[k].cells
              scored == [k \in DOMAIN df |->
                           [id |-> df[k].id, name |-> df[k].name, cells |-> df[k].cells,
                            norm |-> IF normalize THEN norm(k) ELSE <<>>,
                            composite_score |-> CompositeScore(chosen(k), metrics)]]
              by == [k \in DOMAIN scored |-> scored[k].composite_score]
          IN /\ cfg' = [weight_method |-> "Composite Score",
                        ranking_metric |-> metrics[1], top_n |-> top_n,
                        normalize |-> normalize, weights |-> <<>>]
             /\ df' = scored
             /\ \E sorted \in SortValues(scored, by) :
                   LET top == HeadN(sorted, top_n)
                   IN df_ranked' =
                         [k \in DOMAIN top |->
                            [rank |-> k, name |-> top[k].name,
                             composite_score |-> top[k].composite_score,
                             cells |-> top[k].cells]]
    /\ pc' = "done"
    /\ UNCHANGED <<repo, page, session_id, candidates, i, candidate_data, metrics, info,
                   calls, stats>>

\* --------------------------------------------- show_analytics_dashboard
\* sessions = data.list_sessions(); if not sessions: st.info(...); return
DashListSessions ==
    /\ pc = "idle"
    /\ page' = "dashboard"
    /\ calls' = Append(calls, "list_sessions")
    /\ IF ~Truthy(list_sessions)
       THEN /\ info' = "No sessions available. Create an interview session first."
            /\ pc' = "done"
       ELSE /\ info' = info
            /\ pc' = "select"
    /\ UNCHANGED <<repo, session_id, candidates, i, candidate_data, df, metrics, cfg,
                   df_ranked, stats>>

\* The selectbox, candidates = data.list_candidates(session_id), total_candidates.
DashListCandidates ==
    /\ page = "dashboard" /\ pc = "select"
    /\ \E sid \in Range(sessions) :
          /\ session_id' = sid
          /\ candidates' = list_candidates(sid)
          /\ calls' = Append(calls, "list_candidates")
          /\ IF ~Truthy(list_candidates(sid))
             THEN /\ info' = "No candidates in this session yet."
                  /\ pc' = "done"
                  /\ i' = i
                  /\ stats' = stats
             ELSE /\ info' = info
                  /\ pc' = "fetch"
                  /\ i' = 1
                  /\ stats' = [stats EXCEPT !.total_candidates = Len(list_candidates(sid))]
    /\ UNCHANGED <<repo, page, candidate_data, df, metrics, cfg, df_ranked>>

\* One turn of `for cand in candidates:` filling all_scores.
DashFetchScores ==
    /\ page = "dashboard" /\ pc = "fetch" /\ i <= Len(candidates)
    /\ LET cand == candidates[i]
           scores == get_scores_for_candidate(cand.id)
       IN /\ calls' = Append(calls, "get_scores_for_candidate")
          /\ candidate_data' =
                IF Truthy(scores)
                THEN Append(candidate_data,
                            [id |-> cand.id, name |-> cand.name,
                             scores |-> StoreScores(EmptyDict, scores)])
                ELSE candidate_data
    /\ i' = i + 1
    /\ UNCHANGED <<repo, page, pc, session_id, candidates, df, metrics, cfg, df_ranked,
                   info, stats>>

\* if not all_scores: st.info(...); return -- else df_scores.
DashBuildFrame ==
    /\ page = "dashboard" /\ pc = "fetch" /\ i > Len(candidates)
    /\ IF ~Truthy(candidate_data)
       THEN /\ info' = "No scores recorded yet. Start evaluating candidates."
            /\ pc' = "done"
            /\ UNCHANGED <<df, metrics>>
       ELSE /\ df' = DataFrame(candidate_data)
            /\ metrics' = Columns(candidate_data)
            /\ info' = info
            /\ pc' = "key_metrics"
    /\ UNCHANGED <<repo, page, session_id, candidates, i, candidate_data, cfg, df_ranked,
                   calls, stats>>

\* df_scores.drop('candidate_name', axis=1).mean().mean()
AvgTotal(frame, mets) == Mean([j \in DOMAIN mets |-> Mean(Column(frame, mets[j]))])

\* df_scores.drop('candidate_name', axis=1).max().max()
TopScore(frame, mets) == ColMax([j \in DOMAIN mets |-> ColMax(Column(frame, mets[j]))])

\* len([c for c in candidates if data.get_scores_for_candidate(c['id'])])
Completed(cands) == Cardinality({k \in DOMAIN cands : Truthy(get_scores_for_candidate(cands[k].id))})

\* The four key metrics; "Evaluated" reads every candidate's scores again.
DashKeyMetrics ==
    /\ page = "dashboard" /\ pc = "key_metrics"
    /\ stats' = [total_candidates |-> stats.total_candidates,
                 avg_total |-> AvgTotal(df, metrics),
                 completed |-> Completed(candidates),
                 top_score |-> TopScore(df, metrics)]
    /\ calls' = calls \o [k \in DOMAIN candidates |-> "get_scores_for_candidate"]
    /\ pc' = "done"
    /\ UNCHANGED <<repo, page, session_id, candidates, i, candidate_data, df, metrics,
                   cfg, df_ranked, info>>

Next ==
    \/ RankListSessions
    \/ RankListCandidates
    \/ RankFetchScores
    \/ RankBuildFrame
    \/ RankSingleMetric
    \/ RankWeightedAverage
    \/ RankCompositeScore
    \/ DashListSessions
    \/ DashListCandidates
    \/ DashFetchScores
    \/ DashBuildFrame
    \/ DashKeyMetrics

Spec == Init /\ [][Next]_vars

\* ------------------------------------------------------------------------
\* Properties.  The operators below read the repository directly, so that a
\* property compares what a handler produced with what the repository holds.
\* ------------------------------------------------------------------------

\* Candidate cid has a Score for metric m.
HasScore(cid, m) == \E k \in DOMAIN db_scores[cid] : db_scores[cid][k].metric = m

\* The value of that Score.
ScoreValue(cid, m) ==
    LET k == CHOOSE j \in DOMAIN db_scores[cid] : db_scores[cid][j].metric = m
    IN db_scores[cid][k].value

\* The ids of the selected session's candidates that have at least one Score.
ScoredIds == {c.id : c \in {x \in Range(list_candidates(session_id)) : db_scores[x.id] # <<>>}}

\* The active metric set of the selected session.
ActiveMetrics == {m \in Range(Registry) : \E c \in ScoredIds : HasScore(c, m)}

\* The position of candidate cid in the listing list_candidates returned.
ListingPos(cid) == CHOOSE k \in DOMAIN candidates : candidates[k].id = cid

\* The ranking page has displayed a ranking computed by the given method.
Ranked(method) == page = "ranking" /\ pc = "done" /\ cfg.weight_method = method

\* The score column of the method in a row of df or of df_ranked.
MethodScore(row) ==
    CASE cfg.weight_method = "Single Metric" -> row.cells[cfg.ranking_metric]
      [] cfg.weight_method = "Weighted Average" -> row.weighted_score
      [] cfg.weight_method = "Composite Score" -> row.composite_score

\* C1: Single Metric ranking: a candidate that has no score for the chosen
\* metric never appears in the ranking result.
C1_MissingNeverRanked ==
    Ranked("Single Metric") =>
        \A k \in DOMAIN df_ranked : HasScore(df_ranked[k].name, cfg.ranking_metric)

\* The sum over the active metrics of weight x (value if present, else 0).
ZeroFilledWeightedSum(cid) ==
    SumCells([j \in DOMAIN Registry |->
                IF Registry[j] \in ActiveMetrics /\ HasScore(cid, Registry[j])
                THEN Frac(cfg.weights[Registry[j]] * ScoreValue(cid, Registry[j]), 10)
                ELSE R(0)],
             R(0))

\* C2: Weighted Average ranking: every returned candidate's weighted_score is
\* the sum over the active metrics of weight times the candidate's value, a
\* missing value counting as zero.
C2_WeightedZeroFill ==
    Ranked("Weighted Average") =>
        \A k \in DOMAIN df_ranked :
            df_ranked[k].weighted_score = ZeroFilledWeightedSum(df_ranked[k].name)

\* Metric m has the same value for every candidate scored on it.
ConstantMetric(m) ==
    \A c1, c2 \in ScoredIds :
        HasScore(c1, m) /\ HasScore(c2, m) => ScoreValue(c1, m) = ScoreValue(c2, m)

\* C3: Composite Score with normalize: the normalized value of every present
\* score lies in [0, 1], and is exactly 0 on a metric whose maximum equals its
\* minimum over the candidates.
C3_NormalizedInUnitInterval ==
    (Ranked("Composite Score") /\ cfg.normalize) =>
        \A k \in DOMAIN df : \A m \in Range(metrics) :
            HasScore(df[k].id, m) =>
                LET v == df[k].norm[m]
                IN /\ v.d > 0
                   /\ RLe(R(0), v) /\ RLe(v, R(1))
                   /\ ConstantMetric(m) => v = R(0)

\* The number of candidates the method can rank.
Rankable ==
    IF cfg.weight_method = "Single Metric"
    THEN Cardinality({c \in ScoredIds : HasScore(c, cfg.ranking_metric)})
    ELSE Cardinality(ScoredIds)

\* C4: for each method the result has min(top_n, rankable candidates) entries
\* and their ranks are 1, 2, ..., length in output order.
C4_LengthAndRanks ==
    (page = "ranking" /\ pc = "done" /\ cfg.weight_method # "") =>
        /\ Len(df_ranked) = Min(cfg.top_n, Rankable)
        /\ \A k \in DOMAIN df_ranked : df_ranked[k].rank = k

\* C5: for each method, of two adjacent result entries the earlier has a
\* defined score that is greater than or equal to the later one's score.
C5_SortedNonIncreasing ==
    (page = "ranking" /\ pc = "done" /\ cfg.weight_method # "") =>
        \A k \in 1..(Len(df_ranked) - 1) :
            /\ MethodScore(df_ranked[k]).d > 0
            /\ MethodScore(df_ranked[k + 1]).d > 0
            /\ RLe(MethodScore(df_ranked[k + 1]), MethodScore(df_ranked[k]))

\* C6: for each method, two result entries of equal score are in listing
\* order, and of a tie group cut by top_n the earliest listed are kept.
C6_StableTies ==
    (page = "ranking" /\ pc = "done" /\ cfg.weight_method # "") =>
        /\ \A a, b \in DOMAIN df_ranked :
              (a < b /\ MethodScore(df_ranked[a]).d > 0
                     /\ MethodScore(df_ranked[a]) = MethodScore(df_ranked[b]))
                 => ListingPos(df_ranked[a].name) < ListingPos(df_ranked[b].name)
        /\ \A a \in DOMAIN df_ranked : \A k \in DOMAIN df :
              (/\ \A b \in DOMAIN df_ranked : df_ranked[b].name # df[k].id
               /\ MethodScore(df_ranked[a]).d > 0
               /\ MethodScore(df_ranked[a]) = MethodScore(df[k]))
                 => ListingPos(df_ranked[a].name) < ListingPos(df[k].id)

\* The mean of the chosen columns of row k over the metrics the candidate has
\* a score for, the divisor being the number of those metrics.
MeanOfPresent(k) ==
    LET have == SelectSeq(metrics, LAMBDA m : HasScore(df[k].id, m))
        chosen == IF cfg.normalize THEN df[k].norm ELSE df[k].cells
    IN RDiv(SumCells([j \in DOMAIN have |-> chosen[have[j]]], R(0)), R(Len(have)))

\* C7: Composite Score: a candidate's composite_score is defined and is the
\* mean of the chosen columns over the metrics the candidate has a score for.
C7_CompositeMeanOfPresent ==
    Ranked("Composite Score") =>
        \A k \in DOMAIN df :
            /\ df[k].composite_score.d > 0
            /\ df[k].composite_score = MeanOfPresent(k)

RECURSIVE ValueSum(_)
\* The sum of the values of a sequence of Score records.
ValueSum(scores) == IF scores = <<>> THEN 0 ELSE Head(scores).value + ValueSum(Tail(scores))

RECURSIVE SessionSum(_)
SessionSum(cands) ==
    IF cands = <<>> THEN 0
    ELSE ValueSum(db_scores[Head(cands).id]) + SessionSum(Tail(cands))

RECURSIVE SessionCount(_)
SessionCount(cands) ==
    IF cands = <<>> THEN 0
    ELSE Len(db_scores[Head(cands).id]) + SessionCount(Tail(cands))

\* C8: the dashboard's average score is the sum of all present score values of
\* the session divided by their number.
C8_AverageOfAllValues ==
    (page = "dashboard" /\ pc = "done" /\ info = "") =>
        stats.avg_total = RDiv(R(SessionSum(list_candidates(session_id))),
                               R(SessionCount(list_candidates(session_id))))

\* The number of score reads the handler has made.
ScoreReads == Cardinality({k \in DOMAIN calls : calls[k] = "get_scores_for_candidate"})

\* None of the selected session's candidates has a Score.
NoScores == \A c \in Range(list_candidates(session_id)) : db_scores[c.id] = <<>>

\* C9: with no sessions, no candidates in the selected session or no scores,
\* the ranking page ends with an information message and no ranking, having
\* gone no further than the failed check; a ranking is computed only after the
\* sessions, candidates and scores checks have passed, in that order.
C9_NotFoundIsInformational ==
    page = "ranking" =>
        /\ (pc = "done" /\ sessions = <<>>) =>
              /\ info = "No sessions available."
              /\ calls = <<"list_sessions">>
              /\ df_ranked = <<>>
        /\ (pc = "done" /\ sessions # <<>> /\ list_candidates(session_id) = <<>>) =>
              /\ info = "No candidates in this session."
              /\ calls = <<"list_sessions", "list_candidates">>
              /\ df_ranked = <<>>
        /\ (pc = "done" /\ sessions # <<>> /\ list_candidates(session_id) # <<>> /\ NoScores) =>
              /\ info = "No scores recorded. Score candidates first."
              /\ df_ranked = <<>>
        /\ pc \in {"select", "fetch", "configure"} => sessions # <<>>
        /\ pc \in {"fetch", "configure"} => list_candidates(session_id) # <<>>
        /\ pc = "configure" => ~NoScores
        /\ df_ranked # <<>> =>
              /\ sessions # <<>> /\ list_candidates(session_id) # <<>> /\ ~NoScores
              /\ info = ""
              /\ SubSeq(calls, 1, 3) = <<"list_sessions", "list_candidates",
                                         "get_scores_for_candidate">>

\* C9 witness: the ranking page ended on the third check, a session with
\* candidates none of which has a score.
C9_Witness ==
    /\ page = "ranking" /\ pc = "done"
    /\ sessions # <<>> /\ Len(candidates) = MaxCand /\ NoScores
    /\ info = "No scores recorded. Score candidates first."

\* C10: a request that reads scores reads them from the repository in one call.
C10_SingleScoreRead ==
    (pc = "done" /\ candidates # <<>>) => ScoreReads = 1

=============================================================================
